---- MODULE Spec2Model ----
(***************************************************************************)
(* A model of the abzu interpreter (rndaorg/abzu, abzu-interpreter/src):   *)
(* the numeric model of value.rs, the arithmetic of interpreter.rs, the    *)
(* tokenizer of lexer.rs and the read-eval-print loop of main.rs.  The    *)
(* parser (parser.rs) is modelled from the specification's section 4.3.    *)
(*                                                                         *)
(* Conventions.                                                            *)
(*  - i64 is modelled as a two's complement integer of IntBits bits        *)
(*    (MinInt..MaxInt); an f64 -> i64 cast saturates, as Rust's `as` does. *)
(*  - f64 is modelled as a binary floating-point number with FloatBits    *)
(*    significant bits (53 in the source) and an unbounded exponent: the   *)
(*    rational [num, den] in lowest terms, den a power of two.  Every      *)
(*    operation rounds to nearest, ties to even.  den = 0 stands for the   *)
(*    infinities and NaN, which only a division by a zero float could      *)
(*    produce.                                                             *)
(*  - Integer overflow of + - * and unary - depends on the build: with     *)
(*    overflow checks (debug profile) it panics, without (release          *)
(*    profile) it wraps.  The state variable overflow_checks is the build  *)
(*    the session runs under.  i64::MIN % -1 panics in every build.        *)
(*  - A string is a sequence of one-character strings.                     *)
(***************************************************************************)
EXTENDS Integers, Sequences, FiniteSets, TLC

VARIABLES
    overflow_checks,  \* the build profile: TRUE panics on overflow, FALSE wraps
    left,             \* arithmetic: the left (or only) operand
    right,            \* arithmetic: the right operand
    numeral,          \* arithmetic: the string parse_number is called with
    outcome,          \* arithmetic: what the last operation returned
    last_op,          \* arithmetic: the operation that produced outcome
    lexer,            \* tokenizer: the Lexer (input, position, read_position, ch)
    tokens,           \* tokenizer: the tokens pushed so far
    lex_result,       \* tokenizer: Running, or what tokenize returned
    token_starts,     \* tokenizer: the position at which each pushed token began
    environment,      \* evaluator: the session's Environment
    program,          \* evaluator: the Program eval_program was called with
    stmt_index,       \* evaluator: the statement the loop of eval_program is at
    result,           \* evaluator: eval_program's local `result`
    eval_state,       \* evaluator: Idle, Running, Returned or Aborted (a panic)
    eval_return,      \* evaluator: what eval_program returned
    assign_log,       \* history: (name, value yielded) of every assignment that succeeded
    env_at_call,      \* history: the environment when eval_program was called
    yields,           \* history: the values the statements of this call have yielded
    stmts_left,       \* bound: the statements the session may still submit
    pc,               \* REPL: where start_repl is
    at_eof,           \* REPL: standard input has reached its end
    repl_input,       \* REPL: `input`, the line read, trimmed
    parse_result,     \* REPL: what Parser::parse returned for the line
    lines_left        \* bound: the lines standard input may still deliver

arithVars == <<left, right, numeral, outcome, last_op>>

lexVars == <<lexer, tokens, lex_result, token_starts>>

evalVars ==
    <<environment, program, stmt_index, result, eval_state, eval_return,
      assign_log, env_at_call, yields, stmts_left>>

replVars == <<pc, at_eof, repl_input, parse_result, lines_left>>

vars == <<overflow_checks, arithVars, lexVars, evalVars, replVars>>

(***************************************************************************)
(* Bounds of the model.                                                    *)
(***************************************************************************)
IntBits == 8
IntSpan == 3
FloatSpan == 2
SexSpan == 2
MaxLen == 4
MaxStmts == 3
MaxLines == 3
FloatBits == 12

(***************************************************************************)
(* i64 at the model's width.                                               *)
(***************************************************************************)
Pow2(n) == 2 ^ n

MinInt == -Pow2(IntBits - 1)

MaxInt == Pow2(IntBits - 1) - 1

InI64(n) == MinInt <= n /\ n <= MaxInt

\* Two's complement wrap-around of a mathematical integer (release profile).
WrapI64(n) == ((n - MinInt) % Pow2(IntBits)) + MinInt

Abs(n) == IF n < 0 THEN -n ELSE n

\* Rust's `/` on integers truncates toward zero.
TruncDiv(a, b) == LET q == Abs(a) \div Abs(b) IN IF (a < 0) = (b < 0) THEN q ELSE -q

\* Rust's `%` on integers: the remainder has the sign of the dividend.
TruncRem(a, b) == a - b * TruncDiv(a, b)

(***************************************************************************)
(* f64 as a binary floating-point number of FloatBits significant bits: a  *)
(* rational [num, den] whose denominator is a power of two.                *)
(***************************************************************************)
RECURSIVE GCD(_, _)
GCD(a, b) == IF b = 0 THEN a ELSE GCD(b, a % b)

Sign(n) == IF n > 0 THEN 1 ELSE IF n < 0 THEN -1 ELSE 0

\* The float n/d in lowest terms with a positive denominator.  A zero
\* denominator stands for what IEEE division by zero gives: 1/0 and -1/0 are
\* the infinities, 0/0 is NaN.
Flt(n, d) ==
    IF d = 0 THEN [num |-> Sign(n), den |-> 0]
    ELSE LET g == GCD(Abs(n), Abs(d))
             s == IF d < 0 THEN -1 ELSE 1
         IN [num |-> (s * n) \div g, den |-> (s * d) \div g]

\* The number of bits of |n|.
BitLen(n) == IF n = 0 THEN 0 ELSE CHOOSE k \in 1 .. 31 : Abs(n) \div (2 ^ (k - 1)) = 1

\* k, for the power of two 2^k.
Log2(d) == IF d <= 1 THEN 0 ELSE CHOOSE k \in 1 .. 30 : d \div (2 ^ k) = 1

\* The nonnegative integer n without its s lowest bits, rounded to nearest, ties
\* to even (the IEEE 754 default rounding).
ShiftRound(n, s) ==
    LET q == n \div Pow2(s)
        r == n % Pow2(s)
        half == Pow2(s - 1)
    IN IF s = 0 THEN n
       ELSE IF r > half \/ (r = half /\ q % 2 = 1) THEN q + 1 ELSE q

\* The float nearest to n / 2^k (k of either sign): n is rounded to FloatBits
\* significant bits.
FRoundTo(n, k) ==
    LET s == IF BitLen(n) > FloatBits THEN BitLen(n) - FloatBits ELSE 0
        m == Sign(n) * ShiftRound(Abs(n), s)
    IN IF k - s >= 0 THEN Flt(m, Pow2(k - s)) ELSE Flt(m * Pow2(s - k), 1)

\* The float nearest to (n / d) / 2^k for integers n and d # 0: the quotient is
\* taken to FloatBits + 2 bits and a sticky bit records a remainder.
FQuot(n, d, k) ==
    LET a == Abs(n)
        b == Abs(d)
        s == IF BitLen(b) + FloatBits + 2 > BitLen(a)
             THEN BitLen(b) + FloatBits + 2 - BitLen(a) ELSE 0
        q == (a * Pow2(s)) \div b
        sticky == IF (a * Pow2(s)) % b = 0 THEN 0 ELSE 1
    IN FRoundTo(Sign(n) * Sign(d) * (2 * q + sticky), k + s + 1)

\* `i as f64`
FFromInt(i) == FRoundTo(i, 0)

FAdd(a, b) ==
    IF a.den = 0 \/ b.den = 0
    THEN Flt(a.num * b.den + b.num * a.den, a.den * b.den)
    ELSE LET d == IF a.den > b.den THEN a.den ELSE b.den
         IN FRoundTo(a.num * (d \div a.den) + b.num * (d \div b.den), Log2(d))

FNeg(a) == [num |-> -a.num, den |-> a.den]

FSub(a, b) == FAdd(a, FNeg(b))

FMul(a, b) ==
    IF a.den = 0 \/ b.den = 0
    THEN Flt(a.num * b.num, a.den * b.den)
    ELSE FRoundTo(a.num * b.num, Log2(a.den) + Log2(b.den))

FDiv(a, b) ==
    IF a.den = 0 \/ b.den = 0 \/ b.num = 0
    THEN Flt(a.num * b.den, a.den * b.num)
    ELSE FQuot(a.num, b.num, Log2(a.den) - Log2(b.den))

\* `x == 0.0`
FIsZero(a) == a.num = 0 /\ a.den # 0

\* f64::floor
FFloor(a) == IF a.den = 0 THEN a ELSE FFromInt(a.num \div a.den)

\* f64::round: to the nearest integer, ties away from zero.
FRound(a) ==
    IF a.den = 0 THEN a
    ELSE IF a.num >= 0
    THEN FFromInt((2 * a.num + a.den) \div (2 * a.den))
    ELSE FFromInt(-((2 * (-a.num) + a.den) \div (2 * a.den)))

\* `x as i64`: truncates toward zero and saturates; NaN gives 0.
F64AsI64(a) ==
    IF a.den = 0
    THEN (IF a.num > 0 THEN MaxInt ELSE IF a.num < 0 THEN MinInt ELSE 0)
    ELSE LET t == TruncDiv(a.num, a.den)
         IN IF t < MinInt THEN MinInt ELSE IF t > MaxInt THEN MaxInt ELSE t

(***************************************************************************)
(* Value and SexagesimalNum (value.rs).                                    *)
(***************************************************************************)
IntegerV(i) == [kind |-> "Integer", i |-> i]

FloatV(f) == [kind |-> "Float", f |-> f]

SexagesimalV(sex) == [kind |-> "Sexagesimal", sex |-> sex]

\* The struct literal: no range check is made on the fields.
SexagesimalNum(integer, fractional) ==
    [integer_part |-> integer, fractional_part |-> fractional,
     has_fraction |-> fractional # 0]

Ok(v) == [tag |-> "Ok", value |-> v]

Err(e) == [tag |-> "Err", error |-> e]

\* The thread panics: the process is aborted, nothing is returned.
Panic == [tag |-> "Panic"]

InvalidFormat == [kind |-> "InvalidFormat"]

EmptyNumber == [kind |-> "EmptyNumber"]

MultipleDecimals == [kind |-> "MultipleDecimals"]

\* SexagesimalNum::new
SexagesimalNum_new(integer, fractional) ==
    IF fractional < 0 \/ fractional >= 60
    THEN Err(InvalidFormat)
    ELSE Ok(SexagesimalNum(integer, fractional))

\* SexagesimalNum::to_f64
to_f64(sex) ==
    FAdd(FFromInt(sex.integer_part), FDiv(FFromInt(sex.fractional_part), FFromInt(60)))

\* SexagesimalNum::from_f64
from_f64(value) ==
    LET integer_part == F64AsI64(FFloor(value))
        fractional == F64AsI64(FRound(FMul(FSub(value, FFromInt(integer_part)), FFromInt(60))))
    IN SexagesimalNum(integer_part, fractional)

(***************************************************************************)
(* parse_number (value.rs) on strings.  A numeral whose value lies outside *)
(* MinInt..MaxInt overflows i64.  The strings of the model hold no         *)
(* exponent, "inf" or "nan", which f64's parser would also accept.         *)
(***************************************************************************)
DigitValue(c) ==
    CASE c = "0" -> 0 [] c = "1" -> 1 [] c = "2" -> 2 [] c = "3" -> 3 [] c = "4" -> 4
      [] c = "5" -> 5 [] c = "6" -> 6 [] c = "7" -> 7 [] c = "8" -> 8 [] c = "9" -> 9

AllDigits(s) == \A i \in 1 .. Len(s) : s[i] \in {"0", "1", "2", "3", "4", "5", "6", "7", "8", "9"}

\* The value of a run of digits.
RECURSIVE DigitsValue(_)
DigitsValue(s) ==
    IF s = <<>> THEN 0
    ELSE 10 * DigitsValue(SubSeq(s, 1, Len(s) - 1)) + DigitValue(s[Len(s)])

\* The sign a numeral starts with, and the numeral without it.
SignOf(s) == IF s # <<>> /\ s[1] = "-" THEN -1 ELSE 1

Unsigned(s) == IF s # <<>> /\ s[1] \in {"-", "+"} THEN Tail(s) ELSE s

\* str::parse::<i64>: an optional sign and at least one digit, within the range.
ParseI64(s) ==
    LET body == Unsigned(s)
        v == SignOf(s) * DigitsValue(body)
    IN IF body = <<>> \/ ~AllDigits(body) \/ ~InI64(v)
       THEN [tag |-> "Err"]
       ELSE [tag |-> "Ok", value |-> v]

\* The places of the character c in s.
Places(s, c) == {i \in 1 .. Len(s) : s[i] = c}

\* str::contains(c)
Contains(s, c) == Places(s, c) # {}

\* str::split(c), as the sequence of the parts.
RECURSIVE Split(_, _)
Split(s, c) ==
    IF ~Contains(s, c) THEN <<s>>
    ELSE LET i == CHOOSE k \in Places(s, c) : \A m \in Places(s, c) : k <= m
         IN <<SubSeq(s, 1, i - 1)>> \o Split(SubSeq(s, i + 1, Len(s)), c)

RECURSIVE Pow10(_)
Pow10(n) == IF n = 0 THEN 1 ELSE 10 * Pow10(n - 1)

\* str::parse::<f64> on a numeral with exactly one '.': an optional sign, digits
\* on at least one side of the point.
ParseF64(s) ==
    LET body == Unsigned(s)
        parts == Split(body, ".")
        whole == parts[1]
        frac == parts[2]
    IN IF Len(parts) # 2 \/ ~AllDigits(whole) \/ ~AllDigits(frac)
            \/ (whole = <<>> /\ frac = <<>>)
       THEN [tag |-> "Err"]
       ELSE [tag |-> "Ok",
             value |-> FQuot(SignOf(s) * (DigitsValue(whole) * Pow10(Len(frac)) + DigitsValue(frac)),
                             Pow10(Len(frac)), 0)]

parse_base10(s) ==
    LET decimal_count == Cardinality(Places(s, "."))
    IN IF decimal_count > 1 THEN Err(MultipleDecimals)
       ELSE IF decimal_count = 1
       THEN (IF ParseF64(s).tag = "Ok" THEN Ok(FloatV(ParseF64(s).value)) ELSE Err(InvalidFormat))
       ELSE (IF ParseI64(s).tag = "Ok" THEN Ok(IntegerV(ParseI64(s).value)) ELSE Err(InvalidFormat))

parse_sexagesimal(s) ==
    LET parts == Split(s, ";")
        integer_part == ParseI64(parts[1])
        fractional_part == ParseI64(parts[2])
    IN IF Len(parts) # 2 THEN Err(InvalidFormat)
       ELSE IF integer_part.tag = "Err" THEN Err(InvalidFormat)
       ELSE IF fractional_part.tag = "Err" THEN Err(InvalidFormat)
       ELSE IF fractional_part.value < 0 \/ fractional_part.value >= 60 THEN Err(InvalidFormat)
       ELSE LET sex == SexagesimalNum_new(integer_part.value, fractional_part.value)
            IN IF sex.tag = "Ok" THEN Ok(SexagesimalV(sex.value)) ELSE sex

parse_sexagesimal_comma(s) ==
    LET parts == Split(s, ",")
        integer_part == ParseI64(parts[1])
        fractional_part == ParseI64(parts[2])
    IN IF Len(parts) = 1 THEN parse_base10(parts[1])
       ELSE IF Len(parts) = 2
       THEN (IF integer_part.tag = "Err" THEN Err(InvalidFormat)
             ELSE IF fractional_part.tag = "Err" THEN Err(InvalidFormat)
             ELSE IF fractional_part.value < 0 \/ fractional_part.value >= 60
             THEN Err(InvalidFormat)
             ELSE Ok(FloatV(FAdd(FFromInt(integer_part.value),
                                 FDiv(FFromInt(fractional_part.value), FFromInt(60))))))
       ELSE Err(InvalidFormat)

\* parse_number that counts the decimal points before it looks for ';' and ','.
parse_number_DecimalsFirst(s) ==
    IF s = <<>> THEN Err(EmptyNumber)
    ELSE IF Cardinality(Places(s, ".")) > 1 THEN Err(MultipleDecimals)
    ELSE IF Contains(s, ";") THEN parse_sexagesimal(s)
    ELSE IF Contains(s, ",") THEN parse_sexagesimal_comma(s)
    ELSE parse_base10(s)

parse_number(s) ==
    IF s = <<>> THEN Err(EmptyNumber)
    ELSE IF Contains(s, ";") THEN parse_sexagesimal(s)
    ELSE IF Contains(s, ",") THEN parse_sexagesimal_comma(s)
    ELSE parse_base10(s)

(***************************************************************************)
(* RuntimeError and the arithmetic of Interpreter (interpreter.rs).        *)
(***************************************************************************)
DivisionByZero == [kind |-> "DivisionByZero"]

UndefinedVariable(name) == [kind |-> "UndefinedVariable", name |-> name]

TypeError(e) == [kind |-> "TypeError", detail |-> e]

InvalidOperator == [kind |-> "InvalidOperator"]

\* The result of an i64 operation whose mathematical value is n: a panic under
\* overflow checks, the wrapped value without them.
I64Result(n) ==
    IF InI64(n) THEN Ok(IntegerV(n))
    ELSE IF overflow_checks THEN Panic
    ELSE Ok(IntegerV(WrapI64(n)))

\* The pair the code matches on: (left, right).
Kinds(l, r) == <<l.kind, r.kind>>

add_values(l, r) ==
    CASE Kinds(l, r) = <<"Integer", "Integer">> -> I64Result(l.i + r.i)
      [] Kinds(l, r) = <<"Integer", "Float">> -> Ok(FloatV(FAdd(FFromInt(l.i), r.f)))
      [] Kinds(l, r) = <<"Float", "Integer">> -> Ok(FloatV(FAdd(l.f, FFromInt(r.i))))
      [] Kinds(l, r) = <<"Float", "Float">> -> Ok(FloatV(FAdd(l.f, r.f)))
      [] Kinds(l, r) = <<"Sexagesimal", "Sexagesimal">> ->
            Ok(SexagesimalV(from_f64(FAdd(to_f64(l.sex), to_f64(r.sex)))))
      [] Kinds(l, r) = <<"Sexagesimal", "Integer">> ->
            Ok(SexagesimalV(from_f64(FAdd(to_f64(l.sex), FFromInt(r.i)))))
      [] Kinds(l, r) = <<"Integer", "Sexagesimal">> ->
            Ok(SexagesimalV(from_f64(FAdd(FFromInt(l.i), to_f64(r.sex)))))
      [] Kinds(l, r) = <<"Sexagesimal", "Float">> -> Ok(FloatV(FAdd(to_f64(l.sex), r.f)))
      [] Kinds(l, r) = <<"Float", "Sexagesimal">> -> Ok(FloatV(FAdd(l.f, to_f64(r.sex))))
      [] OTHER -> Err(InvalidOperator)

subtract_values(l, r) ==
    CASE Kinds(l, r) = <<"Integer", "Integer">> -> I64Result(l.i - r.i)
      [] Kinds(l, r) = <<"Integer", "Float">> -> Ok(FloatV(FSub(FFromInt(l.i), r.f)))
      [] Kinds(l, r) = <<"Float", "Integer">> -> Ok(FloatV(FSub(l.f, FFromInt(r.i))))
      [] Kinds(l, r) = <<"Float", "Float">> -> Ok(FloatV(FSub(l.f, r.f)))
      [] Kinds(l, r) = <<"Sexagesimal", "Sexagesimal">> ->
            Ok(SexagesimalV(from_f64(FSub(to_f64(l.sex), to_f64(r.sex)))))
      [] Kinds(l, r) = <<"Sexagesimal", "Integer">> ->
            Ok(SexagesimalV(from_f64(FSub(to_f64(l.sex), FFromInt(r.i)))))
      [] Kinds(l, r) = <<"Integer", "Sexagesimal">> ->
            Ok(SexagesimalV(from_f64(FSub(FFromInt(l.i), to_f64(r.sex)))))
      [] Kinds(l, r) = <<"Sexagesimal", "Float">> -> Ok(FloatV(FSub(to_f64(l.sex), r.f)))
      [] Kinds(l, r) = <<"Float", "Sexagesimal">> -> Ok(FloatV(FSub(l.f, to_f64(r.sex))))
      [] OTHER -> Err(InvalidOperator)

multiply_values(l, r) ==
    CASE Kinds(l, r) = <<"Integer", "Integer">> -> I64Result(l.i * r.i)
      [] Kinds(l, r) = <<"Integer", "Float">> -> Ok(FloatV(FMul(FFromInt(l.i), r.f)))
      [] Kinds(l, r) = <<"Float", "Integer">> -> Ok(FloatV(FMul(l.f, FFromInt(r.i))))
      [] Kinds(l, r) = <<"Float", "Float">> -> Ok(FloatV(FMul(l.f, r.f)))
      [] Kinds(l, r) = <<"Sexagesimal", "Integer">> ->
            Ok(SexagesimalV(from_f64(FMul(to_f64(l.sex), FFromInt(r.i)))))
      [] Kinds(l, r) = <<"Integer", "Sexagesimal">> ->
            Ok(SexagesimalV(from_f64(FMul(FFromInt(l.i), to_f64(r.sex)))))
      [] Kinds(l, r) = <<"Sexagesimal", "Float">> -> Ok(FloatV(FMul(to_f64(l.sex), r.f)))
      [] Kinds(l, r) = <<"Float", "Sexagesimal">> -> Ok(FloatV(FMul(l.f, to_f64(r.sex))))
      [] Kinds(l, r) = <<"Sexagesimal", "Sexagesimal">> ->
            Ok(FloatV(FMul(to_f64(l.sex), to_f64(r.sex))))
      [] OTHER -> Err(InvalidOperator)

\* IsZeroDivisor without its Sexagesimal arm: a zero Sexagesimal divisor is let
\* through to the dispatch.
IsZeroDivisor_NoSexagesimalArm(r) ==
    CASE r.kind = "Integer" -> r.i = 0
      [] r.kind = "Float" -> FIsZero(r.f)
      [] r.kind = "Sexagesimal" -> FALSE

\* The first match of divide_values: the guard against a zero divisor.
IsZeroDivisor(r) ==
    CASE r.kind = "Integer" -> r.i = 0
      [] r.kind = "Float" -> FIsZero(r.f)
      [] r.kind = "Sexagesimal" -> FIsZero(to_f64(r.sex))

\* The Integer / Integer arm: `a % b` panics for i64::MIN % -1 in every build.
IntegerDivide(a, b) ==
    IF a = MinInt /\ b = -1 THEN Panic
    ELSE IF TruncRem(a, b) = 0 THEN Ok(IntegerV(TruncDiv(a, b)))
    ELSE Ok(FloatV(FDiv(FFromInt(a), FFromInt(b))))

\* The second match of divide_values, on the operand kinds.
DivideDispatch(l, r) ==
    CASE Kinds(l, r) = <<"Integer", "Integer">> -> IntegerDivide(l.i, r.i)
      [] Kinds(l, r) = <<"Integer", "Float">> -> Ok(FloatV(FDiv(FFromInt(l.i), r.f)))
      [] Kinds(l, r) = <<"Float", "Integer">> -> Ok(FloatV(FDiv(l.f, FFromInt(r.i))))
      [] Kinds(l, r) = <<"Float", "Float">> -> Ok(FloatV(FDiv(l.f, r.f)))
      [] Kinds(l, r) = <<"Sexagesimal", "Integer">> ->
            Ok(SexagesimalV(from_f64(FDiv(to_f64(l.sex), FFromInt(r.i)))))
      [] Kinds(l, r) = <<"Integer", "Sexagesimal">> ->
            Ok(SexagesimalV(from_f64(FDiv(FFromInt(l.i), to_f64(r.sex)))))
      [] Kinds(l, r) = <<"Sexagesimal", "Float">> -> Ok(FloatV(FDiv(to_f64(l.sex), r.f)))
      [] Kinds(l, r) = <<"Float", "Sexagesimal">> -> Ok(FloatV(FDiv(l.f, to_f64(r.sex))))
      [] Kinds(l, r) = <<"Sexagesimal", "Sexagesimal">> ->
            Ok(FloatV(FDiv(to_f64(l.sex), to_f64(r.sex))))
      [] OTHER -> Err(InvalidOperator)

divide_values(l, r) ==
    IF IsZeroDivisor(r) THEN Err(DivisionByZero) ELSE DivideDispatch(l, r)

negate_value(v) ==
    CASE v.kind = "Integer" -> I64Result(-v.i)
      [] v.kind = "Float" -> Ok(FloatV(FNeg(v.f)))
      [] v.kind = "Sexagesimal" -> Ok(SexagesimalV(from_f64(FNeg(to_f64(v.sex)))))

eval_binary_operation(op, l, r) ==
    CASE op = "Plus" -> add_values(l, r)
      [] op = "Minus" -> subtract_values(l, r)
      [] op = "Multiply" -> multiply_values(l, r)
      [] op = "Divide" -> divide_values(l, r)

eval_unary_operation(op, v) ==
    CASE op = "Plus" -> Ok(v)
      [] op = "Minus" -> negate_value(v)

(***************************************************************************)
(* Token (token.rs) and Lexer (lexer.rs).  The source's positions are      *)
(* zero-based; input[k + 1] is the character at position k.                *)
(***************************************************************************)
\* '\0': what read_char stores in ch at the end of the input.
NUL == "NUL"

Digits == {"0", "1", "2", "3", "4", "5", "6", "7", "8", "9"}

\* char::is_ascii_digit
is_ascii_digit(c) == c \in Digits

\* char::is_alphabetic, on the letters the model's inputs use.
is_alphabetic(c) == c \in {"x", "y", "e", "i", "t", "E"}

\* char::is_whitespace: the Unicode White_Space characters the inputs use.
is_whitespace(c) == c \in {" ", "\t", "\r", "\n", "\f"}

NumberToken(text) == [type |-> "Number", text |-> text]

IdentifierToken(text) == [type |-> "Identifier", text |-> text]

SimpleToken(type) == [type |-> type]

\* Lexer::new
\* Lexer::read_char
read_char(lx) ==
    [lx EXCEPT
        !.ch = IF lx.read_position >= Len(lx.input) THEN NUL
               ELSE lx.input[lx.read_position + 1],
        !.position = lx.read_position,
        !.read_position = lx.read_position + 1]

\* Lexer::new
Lexer_new(input) ==
    read_char([input |-> input, position |-> 0, read_position |-> 0, ch |-> NUL])

\* Lexer::peek_char
peek_char(lx) ==
    IF lx.read_position >= Len(lx.input) THEN NUL ELSE lx.input[lx.read_position + 1]

\* Lexer::skip_whitespace: the lexer after the loop.
RECURSIVE skip_whitespace(_)
skip_whitespace(lx) ==
    IF is_whitespace(lx.ch) /\ lx.ch # "\n" THEN skip_whitespace(read_char(lx)) ELSE lx

\* The loop of read_identifier.
RECURSIVE ScanIdentifier(_)
ScanIdentifier(lx) ==
    IF is_alphabetic(lx.ch) \/ lx.ch = "_" \/ is_ascii_digit(lx.ch)
    THEN ScanIdentifier(read_char(lx))
    ELSE lx

\* input[from..to) collected into a String.
Slice(input, from, to) == SubSeq(input, from + 1, to)

\* read_identifier that scans a copy of the lexer: the text is returned and the
\* lexer stays where it was.
read_identifier_OnCopy(lx) ==
    [lexer |-> lx, text |-> Slice(lx.input, lx.position, ScanIdentifier(lx).position)]

\* Lexer::read_identifier: the lexer after the call and the text returned.
read_identifier(lx) ==
    LET after == ScanIdentifier(lx)
    IN [lexer |-> after, text |-> Slice(lx.input, lx.position, after.position)]

\* The first loop of read_number: digits and '-' characters.
RECURSIVE ScanIntegerPart(_)
ScanIntegerPart(lx) ==
    IF is_ascii_digit(lx.ch) \/ lx.ch = "-" THEN ScanIntegerPart(read_char(lx)) ELSE lx

\* The second loop of read_number: digits.
RECURSIVE ScanFraction(_)
ScanFraction(lx) ==
    IF is_ascii_digit(lx.ch) THEN ScanFraction(read_char(lx)) ELSE lx

\* Lexer::read_number: the lexer after the call and the text returned.
read_number(lx) ==
    LET a == ScanIntegerPart(lx)
        after == IF a.ch = "." \/ a.ch = ";" \/ a.ch = ","
                 THEN ScanFraction(read_char(a))
                 ELSE a
    IN [lexer |-> after, text |-> Slice(lx.input, lx.position, after.position)]

UnexpectedCharacter(c, pos) == [kind |-> "UnexpectedCharacter", ch |-> c, position |-> pos]

Running == [tag |-> "Running"]

\* The '-' arm's test: a digit follows, and no token has been emitted or the
\* last one is an operator, '=' or '('.
StartsNegativeNumber(lx, toks) ==
    /\ is_ascii_digit(peek_char(lx))
    /\ \/ toks = <<>>
       \/ toks[Len(toks)].type \in {"Plus", "Minus", "Asterisk", "Slash", "Assign", "LParen"}

\* The arm of tokenize's match that takes the character c (the first that
\* matches, in the order of the source).
MatchArm(c) ==
    CASE c \in {" ", "\t", "\r"} -> "Whitespace"
      [] c = "\n" -> "Newline"
      [] c = "+" -> "Plus"
      [] c = "-" -> "Minus"
      [] c = "*" -> "Asterisk"
      [] c = "/" -> "Slash"
      [] c = "=" -> "Assign"
      [] c = "(" -> "LParen"
      [] c = ")" -> "RParen"
      [] c \in {".", ";", ","} -> "Separator"
      [] OTHER -> IF is_alphabetic(c) \/ c = "_" THEN "Identifier"
                  ELSE IF is_ascii_digit(c) THEN "Number"
                  ELSE "Unexpected"

\* tokenize_step that pushes the token of an operator or parenthesis and leaves
\* the end of the input without pushing EOF.
tokenize_step_NoEOF(lx, toks) ==
    LET arm == MatchArm(lx.ch)
        Continue(l, t) == [lexer |-> l, tokens |-> t, result |-> Running]
    IN IF lx.ch = NUL
       THEN [lexer |-> lx, tokens |-> toks, result |-> Ok(toks)]
       ELSE CASE arm = "Whitespace" -> Continue(skip_whitespace(lx), toks)
              [] arm \in {"Newline", "Plus", "Asterisk", "Slash", "Assign", "LParen", "RParen"} ->
                    Continue(read_char(lx), Append(toks, SimpleToken(arm)))
              [] arm = "Minus" ->
                    IF StartsNegativeNumber(lx, toks)
                    THEN Continue(read_number(lx).lexer,
                                  Append(toks, NumberToken(read_number(lx).text)))
                    ELSE Continue(read_char(lx), Append(toks, SimpleToken("Minus")))
              [] arm = "Identifier" ->
                    Continue(read_identifier(lx).lexer,
                             Append(toks, IdentifierToken(read_identifier(lx).text)))
              [] arm = "Number" ->
                    Continue(read_number(lx).lexer,
                             Append(toks, NumberToken(read_number(lx).text)))
              [] OTHER ->
                    [lexer |-> lx, tokens |-> toks,
                     result |-> Err(UnexpectedCharacter(lx.ch, lx.position))]

\* One iteration of tokenize's loop (ch # '\0'), or the end of it (ch = '\0'):
\* the lexer, the tokens and the state of the call afterwards.
tokenize_step(lx, toks) ==
    LET arm == MatchArm(lx.ch)
        Continue(l, t) == [lexer |-> l, tokens |-> t, result |-> Running]
    IN IF lx.ch = NUL
       THEN [lexer |-> lx, tokens |-> Append(toks, SimpleToken("EOF")),
             result |-> Ok(Append(toks, SimpleToken("EOF")))]
       ELSE CASE arm = "Whitespace" -> Continue(skip_whitespace(lx), toks)
              [] arm \in {"Newline", "Plus", "Asterisk", "Slash", "Assign", "LParen", "RParen"} ->
                    Continue(read_char(lx), Append(toks, SimpleToken(arm)))
              [] arm = "Minus" ->
                    IF StartsNegativeNumber(lx, toks)
                    THEN Continue(read_number(lx).lexer,
                                  Append(toks, NumberToken(read_number(lx).text)))
                    ELSE Continue(read_char(lx), Append(toks, SimpleToken("Minus")))
              [] arm = "Identifier" ->
                    Continue(read_identifier(lx).lexer,
                             Append(toks, IdentifierToken(read_identifier(lx).text)))
              [] arm = "Number" ->
                    Continue(read_number(lx).lexer,
                             Append(toks, NumberToken(read_number(lx).text)))
              [] OTHER ->
                    [lexer |-> lx, tokens |-> toks,
                     result |-> Err(UnexpectedCharacter(lx.ch, lx.position))]

\* The loop of tokenize run to its return, after an iteration that left next.
RECURSIVE TokenizeFrom(_)
TokenizeFrom(next) ==
    IF next.result = Running
    THEN TokenizeFrom(tokenize_step(next.lexer, next.tokens))
    ELSE next.result

\* Lexer::new(input).tokenize()
tokenize(input) ==
    TokenizeFrom([lexer |-> Lexer_new(input), tokens |-> <<>>, result |-> Running])

(***************************************************************************)
(* The AST as interpreter.rs matches on it, Environment, and the           *)
(* evaluation of expressions, statements and programs (interpreter.rs).    *)
(***************************************************************************)
NumberExpr(text) == [node |-> "Number", text |-> text]

IdentifierExpr(name) == [node |-> "Identifier", name |-> name]

BinaryExpr(op, l, r) == [node |-> "Binary", op |-> op, left |-> l, right |-> r]

UnaryExpr(op, e) == [node |-> "Unary", op |-> op, operand |-> e]

GroupedExpr(e) == [node |-> "Grouped", inner |-> e]

ExpressionStmt(e) == [stmt |-> "Expression", value |-> e]

AssignmentStmt(variable, e) == [stmt |-> "Assignment", variable |-> variable, value |-> e]

\* Environment::new: a map with unique keys, as its set of bindings.
Environment_new == {}

\* Environment::set that keeps the binding a name already has (an insert that
\* does not overwrite).
Environment_set_KeepsFirst(env, name, value) ==
    IF \E b \in env : b.name = name THEN env
    ELSE env \cup {[name |-> name, value |-> value]}

\* Environment::set (HashMap::insert: the binding of name is replaced)
Environment_set(env, name, value) ==
    {b \in env : b.name # name} \cup {[name |-> name, value |-> value]}

\* Environment::get
Environment_get(env, name) ==
    IF \E b \in env : b.name = name
    THEN [tag |-> "Some", value |-> (CHOOSE b \in env : b.name = name).value]
    ELSE [tag |-> "None"]

\* Interpreter::eval_expression.  `?` hands an Err on to the caller at once; a
\* panic unwinds through every caller.
\* Interpreter::eval_expression.  The let bindings of the Binary and Unary arms
\* hold the value of one evaluation of the operand: the one-element sets below
\* bind that value.
RECURSIVE eval_expression(_, _)
eval_expression(expr, env) ==
    CASE expr.node = "Number" ->
            LET parsed == parse_number(expr.text)
            IN IF parsed.tag = "Ok" THEN parsed ELSE Err(TypeError(parsed.error))
      [] expr.node = "Identifier" ->
            LET found == Environment_get(env, expr.name)
            IN IF found.tag = "Some" THEN Ok(found.value)
               ELSE Err(UndefinedVariable(expr.name))
      [] expr.node = "Binary" ->
            CHOOSE returned \in
                {IF left_val.tag # "Ok" THEN left_val
                 ELSE CHOOSE applied \in
                          {IF right_val.tag # "Ok" THEN right_val
                           ELSE eval_binary_operation(expr.op, left_val.value, right_val.value) :
                              right_val \in {eval_expression(expr.right, env)}} : TRUE :
                    left_val \in {eval_expression(expr.left, env)}} : TRUE
      [] expr.node = "Unary" ->
            CHOOSE returned \in
                {IF value.tag # "Ok" THEN value
                 ELSE eval_unary_operation(expr.op, value.value) :
                    value \in {eval_expression(expr.operand, env)}} : TRUE
      [] expr.node = "Grouped" -> eval_expression(expr.inner, env)

\* eval_statement that unbinds the target of an assignment before it evaluates
\* the right-hand side, so that a failing assignment loses the old binding.
eval_statement_ClearsTarget(statement, env) ==
    IF statement.stmt = "Expression"
    THEN [outcome |-> eval_expression(statement.value, env), environment |-> env]
    ELSE LET value == eval_expression(statement.value, env)
         IN IF value.tag # "Ok"
            THEN [outcome |-> value,
                  environment |-> {b \in env : b.name # statement.variable}]
            ELSE [outcome |-> value,
                  environment |-> Environment_set(env, statement.variable, value.value)]

\* eval_statement that also binds the value of a bare expression, under the
\* name "ans".
eval_statement_BindsLastValue(statement, env) ==
    LET value == eval_expression(statement.value, env)
    IN IF value.tag # "Ok" THEN [outcome |-> value, environment |-> env]
       ELSE [outcome |-> value,
             environment |->
                 Environment_set(env,
                                 IF statement.stmt = "Assignment" THEN statement.variable
                                 ELSE <<"a", "n", "s">>,
                                 value.value)]

\* Interpreter::eval_statement: what it returns and the environment afterwards.
eval_statement(statement, env) ==
    IF statement.stmt = "Expression"
    THEN [outcome |-> eval_expression(statement.value, env), environment |-> env]
    ELSE LET value == eval_expression(statement.value, env)
         IN IF value.tag # "Ok"
            THEN [outcome |-> value, environment |-> env]
            ELSE [outcome |-> value,
                  environment |-> Environment_set(env, statement.variable, value.value)]

\* Option<Value>
None == [tag |-> "None"]

Some(v) == [tag |-> "Some", value |-> v]

(***************************************************************************)
(* ArithSpec: the arithmetic applied once to operands drawn from bounded   *)
(* sets.  Every Sexagesimal operand satisfies the invariant of value.rs.   *)
(***************************************************************************)
IntOperands == {MinInt, MinInt + 1, MaxInt - 1, MaxInt} \cup (-IntSpan .. IntSpan)

FloatOperands == {Flt(n, d) : n \in -FloatSpan .. FloatSpan, d \in {1, 2, 4}}

SexFractions == {0, 1, 15, 30, 59}

SexOperands ==
    {SexagesimalNum(i, f) : i \in -SexSpan .. SexSpan, f \in SexFractions}
        \cup {SexagesimalNum(i, f) : i \in {MinInt, MaxInt}, f \in {0, 59}}

Operands ==
    {IntegerV(i) : i \in IntOperands}
        \cup {FloatV(f) : f \in FloatOperands}
        \cup {SexagesimalV(x) : x \in SexOperands}

NoOutcome == [tag |-> "None"]

\* The variables of the arithmetic when no operation is under way.
ArithIdle ==
    /\ left = IntegerV(0)
    /\ right = IntegerV(0)
    /\ numeral = <<>>
    /\ outcome = NoOutcome
    /\ last_op = "None"

\* The variables of the tokenizer when no call of tokenize is under way.
LexIdle ==
    /\ lexer = Lexer_new(<<>>)
    /\ tokens = <<>>
    /\ lex_result = NoOutcome
    /\ token_starts = <<>>

\* The variables of the evaluator when no session is under way.
EvalIdle ==
    /\ environment = Environment_new
    /\ program = <<>>
    /\ stmt_index = 0
    /\ result = None
    /\ eval_state = "Idle"
    /\ eval_return = NoOutcome
    /\ assign_log = <<>>
    /\ env_at_call = Environment_new
    /\ yields = <<>>
    /\ stmts_left = 0

\* The variables of the REPL when no REPL is running.
ReplIdle ==
    /\ pc = "Idle"
    /\ at_eof = FALSE
    /\ repl_input = <<>>
    /\ parse_result = NoOutcome
    /\ lines_left = 0

ArithInit ==
    /\ overflow_checks \in BOOLEAN
    /\ left \in Operands
    /\ right \in Operands
    /\ numeral = <<>>
    /\ outcome = NoOutcome
    /\ last_op = "None"
    /\ LexIdle
    /\ EvalIdle
    /\ ReplIdle

\* One binary operation of eval_binary_operation on (left, right).
ApplyBinary(op) ==
    /\ last_op = "None"
    /\ outcome' = eval_binary_operation(op, left, right)
    /\ last_op' = op
    /\ UNCHANGED <<overflow_checks, left, right, numeral, lexVars, evalVars, replVars>>

ApplyPlus == ApplyBinary("Plus")

ApplyMinus == ApplyBinary("Minus")

ApplyMultiply == ApplyBinary("Multiply")

ApplyDivide == ApplyBinary("Divide")

\* Unary minus on left.
ApplyNegate ==
    /\ last_op = "None"
    /\ outcome' = eval_unary_operation("Minus", left)
    /\ last_op' = "Negate"
    /\ UNCHANGED <<overflow_checks, left, right, numeral, lexVars, evalVars, replVars>>

\* Unary plus on left.
ApplyUnaryPlus ==
    /\ last_op = "None"
    /\ outcome' = eval_unary_operation("Plus", left)
    /\ last_op' = "UnaryPlus"
    /\ UNCHANGED <<overflow_checks, left, right, numeral, lexVars, evalVars, replVars>>

\* SexagesimalNum::new(left, right) on two integers.
ApplyNew ==
    /\ last_op = "None"
    /\ left.kind = "Integer" /\ right.kind = "Integer"
    /\ LET r == SexagesimalNum_new(left.i, right.i)
       IN outcome' = IF r.tag = "Ok" THEN Ok(SexagesimalV(r.value)) ELSE r
    /\ last_op' = "New"
    /\ UNCHANGED <<overflow_checks, left, right, numeral, lexVars, evalVars, replVars>>

\* SexagesimalNum::from_f64(left) on a float.
ApplyFromF64 ==
    /\ last_op = "None"
    /\ left.kind = "Float"
    /\ outcome' = Ok(SexagesimalV(from_f64(left.f)))
    /\ last_op' = "FromF64"
    /\ UNCHANGED <<overflow_checks, left, right, numeral, lexVars, evalVars, replVars>>

ArithNext ==
    \/ ApplyPlus
    \/ ApplyMinus
    \/ ApplyMultiply
    \/ ApplyDivide
    \/ ApplyNegate
    \/ ApplyUnaryPlus
    \/ ApplyNew
    \/ ApplyFromF64

ArithSpec == ArithInit /\ [][ArithNext]_vars

(***************************************************************************)
(* LexSpec: Lexer::new(input).tokenize() on every input of at most MaxLen  *)
(* characters, one iteration of the loop per step.                         *)
(***************************************************************************)
LexAlphabet ==
    {"5", "x", "+", "-", "*", "/", "=", "(", ")", ";", ".", ",", " ", "\n", "$", "\f", NUL}

\* Every string of at most MaxLen characters of the alphabet.
LexInputs == UNION {[1 .. n -> LexAlphabet] : n \in 0 .. MaxLen}

LexInit ==
    /\ overflow_checks = FALSE
    /\ ArithIdle
    /\ EvalIdle
    /\ \E input \in LexInputs : lexer = Lexer_new(input)
    /\ tokens = <<>>
    /\ lex_result = Running
    /\ token_starts = <<>>
    /\ ReplIdle

\* The iteration of the loop that takes the given arm of the match.
TakeArm(arm) ==
    /\ lex_result = Running
    /\ lexer.ch # NUL
    /\ MatchArm(lexer.ch) = arm
    /\ LET next == tokenize_step(lexer, tokens)
       IN /\ lexer' = next.lexer
          /\ tokens' = next.tokens
          /\ lex_result' = next.result
          /\ token_starts' = IF Len(next.tokens) > Len(tokens)
                             THEN Append(token_starts, lexer.position)
                             ELSE token_starts
    /\ UNCHANGED <<overflow_checks, arithVars, evalVars, replVars>>

\* The loop ends (ch = '\0'): EOF is pushed and the tokens are returned.
TokenizeReturn ==
    /\ lex_result = Running
    /\ lexer.ch = NUL
    /\ LET next == tokenize_step(lexer, tokens)
       IN /\ lexer' = next.lexer
          /\ tokens' = next.tokens
          /\ lex_result' = next.result
          /\ token_starts' = IF Len(next.tokens) > Len(tokens)
                             THEN Append(token_starts, lexer.position)
                             ELSE token_starts
    /\ UNCHANGED <<overflow_checks, arithVars, evalVars, replVars>>

LexNext ==
    \/ TakeArm("Whitespace")
    \/ TakeArm("Newline")
    \/ TakeArm("Plus")
    \/ TakeArm("Minus")
    \/ TakeArm("Asterisk")
    \/ TakeArm("Slash")
    \/ TakeArm("Assign")
    \/ TakeArm("LParen")
    \/ TakeArm("RParen")
    \/ TakeArm("Separator")
    \/ TakeArm("Identifier")
    \/ TakeArm("Number")
    \/ TakeArm("Unexpected")
    \/ TokenizeReturn

LexSpec == LexInit /\ [][LexNext]_vars

(***************************************************************************)
(* EvalSpec: a session of eval_program calls on one Environment, one       *)
(* iteration of eval_program's loop per step.  The programs are sequences  *)
(* of the statements of StmtPool.                                          *)
(***************************************************************************)
\* Display for i64, as a string of the model.
RECURSIVE NatText(_)
NatText(n) ==
    LET d == <<"0", "1", "2", "3", "4", "5", "6", "7", "8", "9">>[(n % 10) + 1]
    IN IF n < 10 THEN <<d>> ELSE Append(NatText(n \div 10), d)

IntText(n) == IF n < 0 THEN <<"-">> \o NatText(-n) ELSE NatText(n)

VarX == <<"x">>

VarY == <<"y">>

StmtPool ==
    {AssignmentStmt(VarX, NumberExpr(<<"1">>)),
     AssignmentStmt(VarX, NumberExpr(<<"2", ";", "3", "0">>)),
     AssignmentStmt(VarY, BinaryExpr("Plus", IdentifierExpr(VarX), NumberExpr(<<"1">>))),
     AssignmentStmt(VarX, IdentifierExpr(VarY)),
     AssignmentStmt(VarY, BinaryExpr("Divide", NumberExpr(<<"1">>), NumberExpr(<<"0">>))),
     AssignmentStmt(VarX, UnaryExpr("Minus", GroupedExpr(IdentifierExpr(VarY)))),
     ExpressionStmt(IdentifierExpr(VarX)),
     ExpressionStmt(IdentifierExpr(VarY)),
     ExpressionStmt(BinaryExpr("Multiply", IdentifierExpr(VarX), NumberExpr(<<"2">>))),
     ExpressionStmt(BinaryExpr("Divide", NumberExpr(IntText(MinInt)), NumberExpr(<<"-", "1">>)))}

EvalInit ==
    /\ overflow_checks \in BOOLEAN
    /\ ArithIdle
    /\ LexIdle
    /\ environment = Environment_new
    /\ program = <<>>
    /\ stmt_index = 0
    /\ result = None
    /\ eval_state = "Idle"
    /\ eval_return = NoOutcome
    /\ assign_log = <<>>
    /\ env_at_call = Environment_new
    /\ yields = <<>>
    /\ stmts_left = MaxStmts
    /\ ReplIdle

\* eval_program is entered with the program p: `let mut result = None`.
EnterEvalProgram(p) ==
    /\ program' = p
    /\ stmt_index' = 1
    /\ result' = None
    /\ eval_state' = "Running"
    /\ eval_return' = NoOutcome
    /\ env_at_call' = environment
    /\ yields' = <<>>
    /\ UNCHANGED <<environment, assign_log>>

\* A caller calls eval_program on the session's environment.
CallEvalProgram ==
    /\ eval_state \in {"Idle", "Returned"}
    /\ \E n \in 0 .. stmts_left :
         \E p \in [1 .. n -> StmtPool] :
            /\ EnterEvalProgram(p)
            /\ stmts_left' = stmts_left - n
    /\ UNCHANGED <<overflow_checks, arithVars, lexVars, replVars>>

\* What an iteration of the loop does with r, the outcome of eval_statement and
\* the environment it leaves: Ok goes on with the next statement, `?` returns
\* an Err, a panic aborts.
FinishStatement(r) ==
    /\ environment' = r.environment
    /\ CASE r.outcome.tag = "Ok" ->
              /\ result' = Some(r.outcome.value)
              /\ stmt_index' = stmt_index + 1
              /\ UNCHANGED <<eval_state, eval_return>>
         [] r.outcome.tag = "Err" ->
              /\ eval_state' = "Returned"
              /\ eval_return' = r.outcome
              /\ UNCHANGED <<result, stmt_index>>
         [] r.outcome.tag = "Panic" ->
              /\ eval_state' = "Aborted"
              /\ UNCHANGED <<result, stmt_index, eval_return>>
    /\ assign_log' =
          IF program[stmt_index].stmt = "Assignment" /\ r.outcome.tag = "Ok"
          THEN Append(assign_log,
                      [name |-> program[stmt_index].variable, value |-> r.outcome.value])
          ELSE assign_log
    /\ yields' = IF r.outcome.tag = "Ok" THEN Append(yields, r.outcome.value) ELSE yields

\* One iteration of the loop: `result = Some(self.eval_statement(..)?)`.
EvalNextStatement ==
    /\ eval_state = "Running"
    /\ stmt_index <= Len(program)
    /\ FinishStatement(eval_statement(program[stmt_index], environment))
    /\ UNCHANGED <<program, env_at_call, stmts_left>>
    /\ UNCHANGED <<overflow_checks, arithVars, lexVars, replVars>>

\* The loop is over: `Ok(result)`.
EvalProgramReturn ==
    /\ eval_state = "Running"
    /\ stmt_index > Len(program)
    /\ eval_state' = "Returned"
    /\ eval_return' = Ok(result)
    /\ UNCHANGED <<environment, program, stmt_index, result>>
    /\ UNCHANGED <<assign_log, env_at_call, yields, stmts_left>>
    /\ UNCHANGED <<overflow_checks, arithVars, lexVars, replVars>>

EvalNext ==
    \/ CallEvalProgram
    \/ EvalNextStatement
    \/ EvalProgramReturn

EvalSpec == EvalInit /\ [][EvalNext]_vars

(***************************************************************************)
(* The parser.  parser.rs is not among the sources at hand: Parser::parse  *)
(* is modelled from the specification's section 4.3 (recursive descent;    *)
(* assignment only as `identifier = expression`, then additive, then       *)
(* multiplicative, both left-associative, then prefix + and -, then        *)
(* primary; Newline separates statements).  A token sequence ends in EOF.  *)
(***************************************************************************)
ParseError(detail) == [kind |-> "ParseError", detail |-> detail]

\* An expression parsed, and the index of the first token after it.
Parsed(e, next) == [tag |-> "Ok", expr |-> e, next |-> next]

BinaryOperatorOf(type) ==
    CASE type = "Plus" -> "Plus"
      [] type = "Minus" -> "Minus"
      [] type = "Asterisk" -> "Multiply"
      [] type = "Slash" -> "Divide"

RECURSIVE parse_additive(_, _)
RECURSIVE parse_additive_rest(_, _, _)
RECURSIVE parse_multiplicative_rest(_, _, _)
RECURSIVE parse_unary(_, _)

\* primary: a numeral literal, an identifier or a parenthesized expression
parse_primary(toks, pos) ==
    CASE toks[pos].type = "Number" -> Parsed(NumberExpr(toks[pos].text), pos + 1)
      [] toks[pos].type = "Identifier" -> Parsed(IdentifierExpr(toks[pos].text), pos + 1)
      [] toks[pos].type = "LParen" ->
            LET inner == parse_additive(toks, pos + 1)
            IN IF inner.tag # "Ok" THEN inner
               ELSE IF toks[inner.next].type = "RParen"
                    THEN Parsed(GroupedExpr(inner.expr), inner.next + 1)
                    ELSE Err(ParseError("unclosed parenthesis"))
      [] toks[pos].type = "EOF" -> Err(ParseError("incomplete expression"))
      [] OTHER -> Err(ParseError("unexpected token"))

\* unary: prefix + and -
parse_unary(toks, pos) ==
    IF toks[pos].type \in {"Plus", "Minus"}
    THEN LET operand == parse_unary(toks, pos + 1)
         IN IF operand.tag # "Ok" THEN operand
            ELSE Parsed(UnaryExpr(toks[pos].type, operand.expr), operand.next)
    ELSE parse_primary(toks, pos)

\* multiplicative: * and /, left-associative
parse_multiplicative_rest(toks, lhs, pos) ==
    IF toks[pos].type \in {"Asterisk", "Slash"}
    THEN LET rhs == parse_unary(toks, pos + 1)
         IN IF rhs.tag # "Ok" THEN rhs
            ELSE parse_multiplicative_rest(
                     toks, BinaryExpr(BinaryOperatorOf(toks[pos].type), lhs, rhs.expr), rhs.next)
    ELSE Parsed(lhs, pos)

parse_multiplicative(toks, pos) ==
    LET first == parse_unary(toks, pos)
    IN IF first.tag # "Ok" THEN first
       ELSE parse_multiplicative_rest(toks, first.expr, first.next)

\* additive: + and -, left-associative
parse_additive_rest(toks, lhs, pos) ==
    IF toks[pos].type \in {"Plus", "Minus"}
    THEN LET rhs == parse_multiplicative(toks, pos + 1)
         IN IF rhs.tag # "Ok" THEN rhs
            ELSE parse_additive_rest(
                     toks, BinaryExpr(BinaryOperatorOf(toks[pos].type), lhs, rhs.expr), rhs.next)
    ELSE Parsed(lhs, pos)

parse_additive(toks, pos) ==
    LET first == parse_multiplicative(toks, pos)
    IN IF first.tag # "Ok" THEN first
       ELSE parse_additive_rest(toks, first.expr, first.next)

\* A statement: an assignment when it begins `identifier =`, else a bare
\* expression.  [tag, stmt, next] or an Err.
parse_statement(toks, pos) ==
    IF toks[pos].type = "Identifier" /\ toks[pos + 1].type = "Assign"
    THEN LET value == parse_additive(toks, pos + 2)
         IN IF value.tag # "Ok" THEN value
            ELSE [tag |-> "Ok", stmt |-> AssignmentStmt(toks[pos].text, value.expr),
                  next |-> value.next]
    ELSE LET value == parse_additive(toks, pos)
         IN IF value.tag # "Ok" THEN value
            ELSE [tag |-> "Ok", stmt |-> ExpressionStmt(value.expr), next |-> value.next]

\* The statements from token pos on, after the statements stmts.
RECURSIVE parse_statements(_, _, _)
parse_statements(toks, stmts, pos) ==
    CASE toks[pos].type = "EOF" -> Ok(stmts)
      [] toks[pos].type = "Newline" -> parse_statements(toks, stmts, pos + 1)
      [] OTHER ->
            LET statement == parse_statement(toks, pos)
            IN IF statement.tag # "Ok" THEN statement
               ELSE IF toks[statement.next].type \in {"Newline", "EOF"}
                    THEN parse_statements(toks, Append(stmts, statement.stmt), statement.next)
                    ELSE Err(ParseError("unexpected token"))

\* Parser::new(tokens).parse()
parse(toks) == parse_statements(toks, <<>>, 1)

(***************************************************************************)
(* The read-eval-print loop (main.rs, start_repl).  Standard input         *)
(* delivers at most MaxLines lines and then its end; it may end earlier.   *)
(* tokenize runs one iteration of its loop per step (ReplTokenizeStep) and *)
(* eval_program one statement per step (EvalNextStatement,                 *)
(* EvalProgramReturn).                                                     *)
(***************************************************************************)
\* str::trim: without the leading and trailing whitespace
trim(s) ==
    LET kept == {i \in 1 .. Len(s) : ~is_whitespace(s[i])}
    IN IF kept = {} THEN <<>>
       ELSE SubSeq(s, CHOOSE i \in kept : \A j \in kept : i <= j,
                      CHOOSE i \in kept : \A j \in kept : j <= i)

\* char::to_ascii_lowercase, on the letters the model's lines use
to_ascii_lowercase(c) == IF c = "E" THEN "e" ELSE c

\* str::eq_ignore_ascii_case
eq_ignore_ascii_case(a, b) ==
    /\ Len(a) = Len(b)
    /\ \A i \in 1 .. Len(a) : to_ascii_lowercase(a[i]) = to_ascii_lowercase(b[i])

\* The lines standard input may deliver, without their final newline.
ReplLines ==
    {<<"x", " ", "=", " ", "1">>,
     <<"x", " ", "=", " ", "2", ";", "3", "0">>,
     <<"y", " ", "=", " ", "x", " ", "+", " ", "1">>,
     <<"x">>,
     <<"y", " ", "*", " ", "2">>,
     <<"1", " ", "/", " ", "0">>,
     <<"x", " ", "=", " ", "y", " ", "/", " ", "0">>,
     <<"x", " ", "=", " ", "$">>,
     <<"y", " ", "=", " ", "(", "1">>,
     <<" ", "\t">>,
     <<" ", "E", "x", "i", "t", " ">>}

ReplInit ==
    /\ overflow_checks \in BOOLEAN
    /\ ArithIdle
    /\ LexIdle
    /\ EvalIdle
    /\ pc = "prompt"
    /\ at_eof = FALSE
    /\ repl_input = <<>>
    /\ parse_result = NoOutcome
    /\ lines_left = MaxLines

\* print!("> "); flush
ReplPrompt ==
    /\ pc = "prompt"
    /\ pc' = "read"
    /\ UNCHANGED <<at_eof, repl_input, parse_result, lines_left>>
    /\ UNCHANGED <<overflow_checks, arithVars, lexVars, evalVars>>

\* read_line(&mut input).unwrap() delivers a line; let input = input.trim()
ReplReadLine ==
    /\ pc = "read"
    /\ ~at_eof
    /\ lines_left > 0
    /\ \E text \in ReplLines : repl_input' = trim(Append(text, "\n"))
    /\ lines_left' = lines_left - 1
    /\ pc' = "dispatch"
    /\ UNCHANGED <<at_eof, parse_result>>
    /\ UNCHANGED <<overflow_checks, arithVars, lexVars, evalVars>>

\* read_line at the end of standard input: Ok(0), and nothing is appended to
\* the empty `input`.
ReplReadEof ==
    /\ pc = "read"
    /\ at_eof' = TRUE
    /\ repl_input' = trim(<<>>)
    /\ pc' = "dispatch"
    /\ UNCHANGED <<parse_result, lines_left>>
    /\ UNCHANGED <<overflow_checks, arithVars, lexVars, evalVars>>

\* read_line fails (the bytes read are not UTF-8): unwrap panics.
ReplReadFails ==
    /\ pc = "read"
    /\ ~at_eof
    /\ lines_left > 0
    /\ lines_left' = lines_left - 1
    /\ pc' = "aborted"
    /\ UNCHANGED <<at_eof, repl_input, parse_result>>
    /\ UNCHANGED <<overflow_checks, arithVars, lexVars, evalVars>>

\* if input.eq_ignore_ascii_case("exit") { break; }
ReplExit ==
    /\ pc = "dispatch"
    /\ eq_ignore_ascii_case(repl_input, <<"e", "x", "i", "t">>)
    /\ pc' = "exited"
    /\ UNCHANGED <<at_eof, repl_input, parse_result, lines_left>>
    /\ UNCHANGED <<overflow_checks, arithVars, lexVars, evalVars>>

\* if input.is_empty() { continue; }
ReplSkipEmpty ==
    /\ pc = "dispatch"
    /\ ~eq_ignore_ascii_case(repl_input, <<"e", "x", "i", "t">>)
    /\ repl_input = <<>>
    /\ pc' = "prompt"
    /\ UNCHANGED <<at_eof, repl_input, parse_result, lines_left>>
    /\ UNCHANGED <<overflow_checks, arithVars, lexVars, evalVars>>

\* let mut lexer = Lexer::new(input); lexer.tokenize() is entered
ReplTokenize ==
    /\ pc = "dispatch"
    /\ ~eq_ignore_ascii_case(repl_input, <<"e", "x", "i", "t">>)
    /\ repl_input # <<>>
    /\ lexer' = Lexer_new(repl_input)
    /\ tokens' = <<>>
    /\ lex_result' = Running
    /\ token_starts' = <<>>
    /\ pc' = "tokenize"
    /\ UNCHANGED <<at_eof, repl_input, parse_result, lines_left>>
    /\ UNCHANGED <<overflow_checks, arithVars, evalVars>>

\* One iteration of tokenize's loop, or its end, on the line.
ReplTokenizeStep ==
    /\ pc = "tokenize"
    /\ lex_result = Running
    /\ LET next == tokenize_step(lexer, tokens)
       IN /\ lexer' = next.lexer
          /\ tokens' = next.tokens
          /\ lex_result' = next.result
          /\ token_starts' = IF Len(next.tokens) > Len(tokens)
                             THEN Append(token_starts, lexer.position)
                             ELSE token_starts
    /\ UNCHANGED <<overflow_checks, arithVars, evalVars, replVars>>

\* tokenize has returned: Ok(tokens) goes on to the parser, Err is printed and
\* the loop continues.
ReplTokenized ==
    /\ pc = "tokenize"
    /\ lex_result # Running
    /\ pc' = IF lex_result.tag = "Ok" THEN "parse" ELSE "prompt"
    /\ UNCHANGED <<at_eof, repl_input, parse_result, lines_left>>
    /\ UNCHANGED <<overflow_checks, arithVars, lexVars, evalVars>>

\* What the loop does with r, the return of parse: Ok(program) is handed to
\* eval_program, Err is printed and the loop starts over.
ReplParsed(r) ==
    /\ parse_result' = r
    /\ IF r.tag = "Ok"
       THEN /\ pc' = "eval"
            /\ EnterEvalProgram(r.value)
            /\ UNCHANGED stmts_left
       ELSE /\ pc' = "prompt"
            /\ UNCHANGED evalVars

\* Parser::new(tokens).parse(), and the call of eval_program
ReplParse ==
    /\ pc = "parse"
    /\ ReplParsed(parse(tokens))
    /\ UNCHANGED <<at_eof, repl_input, lines_left>>
    /\ UNCHANGED <<overflow_checks, arithVars, lexVars>>

\* eval_program has returned: the result or the runtime error is printed and
\* the loop starts over.
ReplPrintResult ==
    /\ pc = "eval"
    /\ eval_state = "Returned"
    /\ pc' = "prompt"
    /\ UNCHANGED <<at_eof, repl_input, parse_result, lines_left>>
    /\ UNCHANGED <<overflow_checks, arithVars, lexVars, evalVars>>

Next ==
    \/ ReplPrompt
    \/ ReplReadLine
    \/ ReplReadEof
    \/ ReplReadFails
    \/ ReplExit
    \/ ReplSkipEmpty
    \/ ReplTokenize
    \/ ReplTokenizeStep
    \/ ReplTokenized
    \/ ReplParse
    \/ EvalNextStatement
    \/ EvalProgramReturn
    \/ ReplPrintResult

Init == ReplInit

Spec == Init /\ [][Next]_vars

\* The process keeps running while it can take a step: nothing but its own
\* exit or a panic stops start_repl.
FairSpec == Spec /\ WF_vars(Next)

(***************************************************************************)
(* The Sexagesimal arithmetic on valid operands: every fraction 0..59,     *)
(* integer parts around zero and at and near the ends of i64.              *)
(***************************************************************************)
(* parse_number on every numeral string of up to MaxLen characters.        *)
(***************************************************************************)
ParseAlphabet == {"0", "1", "6", "9", "-", "+", ";", ",", "."}

Numerals == UNION {[1 .. n -> ParseAlphabet] : n \in 0 .. MaxLen}

ParseInit ==
    /\ overflow_checks = FALSE
    /\ left = IntegerV(0)
    /\ right = IntegerV(0)
    /\ numeral \in Numerals
    /\ outcome = NoOutcome
    /\ last_op = "None"
    /\ LexIdle
    /\ EvalIdle
    /\ ReplIdle

\* parse_number(numeral)
ApplyParseNumber ==
    /\ last_op = "None"
    /\ outcome' = parse_number(numeral)
    /\ last_op' = "ParseNumber"
    /\ UNCHANGED <<overflow_checks, left, right, numeral, lexVars, evalVars, replVars>>

ParseSpec == ParseInit /\ [][ApplyParseNumber]_vars

(***************************************************************************)
SexLeftInts == (-SexSpan .. SexSpan) \cup {MinInt, MinInt \div 2, MaxInt \div 2 + 1, MaxInt}

SexRightInts == {-1, 0, 1}

ValidSexagesimals(ints) ==
    {SexagesimalV(SexagesimalNum_new(i, f).value) : i \in ints, f \in 0 .. 59}

SexInit ==
    /\ overflow_checks = FALSE
    /\ left \in ValidSexagesimals(SexLeftInts)
    /\ right \in ValidSexagesimals(SexRightInts)
    /\ numeral = <<>>
    /\ outcome = NoOutcome
    /\ last_op = "None"
    /\ LexIdle
    /\ EvalIdle
    /\ ReplIdle

\* Unary minus applied to left and again to what that gives.
ApplyNegateTwice ==
    /\ last_op = "None"
    /\ outcome' = eval_unary_operation("Minus", eval_unary_operation("Minus", left).value)
    /\ last_op' = "NegateTwice"
    /\ UNCHANGED <<overflow_checks, left, right, numeral, lexVars, evalVars, replVars>>

\* SexagesimalNum::from_f64(left.to_f64())
ApplyRoundTrip ==
    /\ last_op = "None"
    /\ outcome' = Ok(SexagesimalV(from_f64(to_f64(left.sex))))
    /\ last_op' = "RoundTrip"
    /\ UNCHANGED <<overflow_checks, left, right, numeral, lexVars, evalVars, replVars>>

SexNext ==
    \/ ApplyPlus
    \/ ApplyMinus
    \/ ApplyNegateTwice
    \/ ApplyRoundTrip

SexSpec == SexInit /\ [][SexNext]_vars

(***************************************************************************)
(* Claims about the read-eval-print loop, checked under Spec and FairSpec. *)
(***************************************************************************)
BoundNames(env) == {b.name : b \in env}

\* C4: once standard input has reached its end, start_repl eventually exits
\* instead of prompting again forever.
C4_ExitsAtEndOfInput == at_eof ~> (pc = "exited")

\* C8: the environment is changed only by an assignment statement that
\* evaluates successfully, and then only at the assigned name; the parser runs
\* only on a line that tokenized and eval_program only on a line that parsed; no
\* step removes a name from the environment.
C8_OnlyAssignmentsBind ==
    /\ [](pc = "parse" => lex_result.tag = "Ok")
    /\ [](pc = "eval" => (lex_result.tag = "Ok" /\ parse_result = Ok(program)))
    /\ [][/\ BoundNames(environment) \subseteq BoundNames(environment')
          /\ environment' # environment =>
               /\ pc = "eval"
               /\ eval_state = "Running"
               /\ stmt_index <= Len(program)
               /\ program[stmt_index].stmt = "Assignment"
               /\ Len(yields') = Len(yields) + 1
               /\ {b \in environment' : b.name # program[stmt_index].variable}
                     = {b \in environment : b.name # program[stmt_index].variable}]_vars

\* C8's case: after a line that bound a name, a line has failed in the parser
\* and a line has failed in the tokenizer; the name is still bound.
C8_Witness ==
    /\ pc = "prompt"
    /\ lex_result.tag = "Err"
    /\ parse_result.tag = "Err"
    /\ environment # Environment_new

(***************************************************************************)
(* Claims about the tokenizer, checked under LexSpec.  The characters      *)
(* before lexer.position are the ones tokenize has consumed.               *)
(***************************************************************************)

\* C2: every '-' immediately followed by a digit starts a negative Number token
\* if and only if no token has been emitted or the last emitted token is Plus,
\* Minus, Asterisk, Slash, Assign or LParen; otherwise it is emitted as a Minus
\* token of its own, followed by a separate Number token.
C2_MinusDisambiguation ==
    \A k \in 0 .. lexer.position - 1 :
        (/\ k + 2 <= Len(lexer.input)
         /\ lexer.input[k + 1] = "-"
         /\ lexer.input[k + 2] \in Digits)
            => \E j \in 1 .. Len(tokens) :
                 /\ token_starts[j] = k
                 /\ IF j = 1 \/ tokens[IF j = 1 THEN 1 ELSE j - 1].type \in
                              {"Plus", "Minus", "Asterisk", "Slash", "Assign", "LParen"}
                    THEN tokens[j].type = "Number" /\ tokens[j].text[1] = "-"
                    ELSE /\ tokens[j].type = "Minus"
                         /\ j < Len(tokens) =>
                               /\ tokens[j + 1].type = "Number"
                               /\ token_starts[j + 1] = k + 1

\* C3: the text of every Number token is a verbatim slice of the input of the
\* shape: at most one leading '-', a maximal non-empty run of digits, then
\* optionally one separator ('.', ';' or ',') and a maximal run of digits.
C3_NumberTextShape ==
    \A j \in 1 .. Len(tokens) :
        tokens[j].type = "Number" =>
            LET text == tokens[j].text
                start == token_starts[j]
                body == IF text # <<>> /\ text[1] = "-" THEN Tail(text) ELSE text
                seps == {i \in 1 .. Len(body) : body[i] \in {".", ";", ","}}
                end == start + Len(text)
            IN /\ text = SubSeq(lexer.input, start + 1, end)
               /\ body # <<>>
               /\ body[1] \in Digits
               /\ \A i \in 1 .. Len(body) : body[i] \in Digits \cup {".", ";", ","}
               /\ Cardinality(seps) <= 1
               /\ end < Len(lexer.input) =>
                     /\ lexer.input[end + 1] \notin Digits
                     /\ seps = {} => lexer.input[end + 1] \notin {".", ";", ","}

\* The positions of the input that token j was made of (none for EOF).
TokenSpan(j) ==
    token_starts[j] ..
        token_starts[j] - 1 +
            (CASE tokens[j].type \in {"Number", "Identifier"} -> Len(tokens[j].text)
               [] tokens[j].type = "EOF" -> 0
               [] OTHER -> 1)

\* The positions of the characters no token may hold: a character that is not a
\* space, tab, carriage return, newline, operator, parenthesis, letter,
\* underscore, digit or separator; and a separator that is not the single
\* separator of a Number token.
OffendingPositions ==
    {k \in 0 .. Len(lexer.input) - 1 :
        \/ /\ lexer.input[k + 1] \notin
                {" ", "\t", "\r", "\n", "+", "-", "*", "/", "=", "(", ")", "_", ".", ";", ","}
           /\ ~is_alphabetic(lexer.input[k + 1])
           /\ ~is_ascii_digit(lexer.input[k + 1])
        \/ /\ lexer.input[k + 1] \in {".", ";", ","}
           /\ ~\E j \in 1 .. Len(tokens) :
                 /\ tokens[j].type = "Number"
                 /\ k \in TokenSpan(j)
                 /\ \A i \in TokenSpan(j) : lexer.input[i + 1] \in {".", ";", ","} => i = k}

\* C15: when the input holds a separator that is not consumed as the single
\* separator of a number, or a character outside the tokenizer's alphabet,
\* tokenize fails with UnexpectedCharacter carrying the first such character and
\* its zero-based offset; the character is never skipped and never ends
\* tokenization silently.
C15_UnexpectedCharacter ==
    (lex_result # Running /\ OffendingPositions # {}) =>
        LET first == CHOOSE k \in OffendingPositions : \A i \in OffendingPositions : k <= i
        IN lex_result = Err(UnexpectedCharacter(lexer.input[first + 1], first))

\* C16: when tokenize succeeds the tokens it returns are not empty, the last one
\* is EOF, EOF occurs nowhere else, and every character of the input before the
\* point at which EOF was pushed lies in a token or is whitespace that was
\* skipped.
C16_EndsInEOF ==
    (lex_result.tag = "Ok") =>
        /\ lex_result.value = tokens
        /\ tokens # <<>>
        /\ tokens[Len(tokens)].type = "EOF"
        /\ \A j \in 1 .. Len(tokens) - 1 : tokens[j].type # "EOF"
        /\ token_starts[Len(tokens)] = lexer.position
        /\ \A k \in 0 .. lexer.position - 1 :
              \/ is_whitespace(lexer.input[k + 1]) /\ lexer.input[k + 1] # "\n"
              \/ \E j \in 1 .. Len(tokens) : k \in TokenSpan(j)

\* C16's case: an input of MaxLen characters with skipped whitespace, a Number
\* and an Identifier has been tokenized.
C16_Witness ==
    /\ lex_result.tag = "Ok"
    /\ Len(lexer.input) = MaxLen
    /\ lexer.position = MaxLen
    /\ \E k \in 1 .. MaxLen : lexer.input[k] = " "
    /\ \E j \in 1 .. Len(tokens) : tokens[j].type = "Number"
    /\ \E j \in 1 .. Len(tokens) : tokens[j].type = "Identifier"

\* C18: every iteration of tokenize's loop either returns an error or advances
\* the position and the read position by at least one character, whichever of
\* read_number, read_identifier and skip_whitespace it calls; the position never
\* passes the end of the input, and the tokens emitted never number more than
\* the input's length plus one.
C18_TokenizeAdvances ==
    /\ [](lexer.position <= Len(lexer.input))
    /\ [](Len(tokens) <= Len(lexer.input) + 1)
    /\ [][(lex_result = Running /\ lexer.ch # NUL) =>
            \/ lex_result'.tag = "Err"
            \/ /\ lex_result' = Running
               /\ lexer'.position > lexer.position
               /\ lexer'.read_position > lexer.read_position
               /\ Len(tokens') <= Len(tokens) + 1]_vars

\* C18's case: every character of an input of MaxLen characters became a token
\* of its own, so the loop ran MaxLen times and emitted MaxLen + 1 tokens.
C18_Witness ==
    /\ lex_result.tag = "Ok"
    /\ Len(lexer.input) = MaxLen
    /\ Len(tokens) = MaxLen + 1

(***************************************************************************)
(* Claims about the evaluator, checked under EvalSpec.                     *)
(***************************************************************************)

\* C6: when eval_program returns the error of the first failing statement, the
\* environment is the one before the call updated by exactly the assignments of
\* the statements before the failing one; the failing statement binds nothing
\* and no later statement is evaluated.
C6_StopsAtFirstFailure ==
    (eval_state = "Returned" /\ eval_return.tag = "Err") =>
        /\ stmt_index \in 1 .. Len(program)
        /\ Len(yields) = stmt_index - 1
        /\ eval_return = eval_statement(program[stmt_index], environment).outcome
        /\ \A n \in {b.name : b \in environment \cup env_at_call}
                      \cup {program[i].variable :
                               i \in {j \in 1 .. Len(program) : program[j].stmt = "Assignment"}} :
              LET before == {i \in 1 .. stmt_index - 1 :
                               program[i].stmt = "Assignment" /\ program[i].variable = n}
                  last == CHOOSE i \in before : \A j \in before : j <= i
              IN Environment_get(environment, n) =
                    IF before = {} THEN Environment_get(env_at_call, n)
                    ELSE [tag |-> "Some", value |-> yields[last]]

\* C6's case: the second of three statements, an assignment to a name bound by
\* the first, fails; the third is never evaluated.
C6_Witness ==
    /\ eval_state = "Returned"
    /\ eval_return.tag = "Err"
    /\ Len(program) = 3
    /\ stmt_index = 2
    /\ program[1].stmt = "Assignment"
    /\ program[2].stmt = "Assignment"
    /\ program[2].variable = program[1].variable

\* C7: a successful assignment to n yields the assigned value, every later
\* reference to n (in the same call or a later one) yields the value most
\* recently assigned to n, and a reference to a name never assigned fails with
\* UndefinedVariable naming it.
C7_AssignmentPersists ==
    /\ (yields # <<>> /\ program[Len(yields)].stmt = "Assignment") =>
          /\ assign_log # <<>>
          /\ assign_log[Len(assign_log)] =
                [name |-> program[Len(yields)].variable, value |-> yields[Len(yields)]]
          /\ Environment_get(environment, program[Len(yields)].variable) =
                [tag |-> "Some", value |-> yields[Len(yields)]]
    /\ (yields # <<>> /\ program[Len(yields)].value.node = "Identifier") =>
          LET n == program[Len(yields)].value.name
              earlier == IF program[Len(yields)].stmt = "Assignment"
                         THEN SubSeq(assign_log, 1, Len(assign_log) - 1)
                         ELSE assign_log
              entries == {i \in 1 .. Len(earlier) : earlier[i].name = n}
          IN /\ entries # {}
             /\ yields[Len(yields)] =
                   earlier[CHOOSE i \in entries : \A j \in entries : j <= i].value
    /\ (/\ eval_state = "Returned"
        /\ eval_return.tag = "Err"
        /\ program[stmt_index].value.node = "Identifier") =>
          /\ eval_return.error =
                [kind |-> "UndefinedVariable", name |-> program[stmt_index].value.name]
          /\ \A i \in 1 .. Len(assign_log) :
                assign_log[i].name # program[stmt_index].value.name

\* C7's case: x is assigned in one call, assigned another value in a second
\* call, and a reference to x in a third call yields the second value.
C7_Witness ==
    /\ Len(program) = 1
    /\ program[1].stmt = "Expression"
    /\ program[1].value = IdentifierExpr(VarX)
    /\ Len(yields) = 1
    /\ Len(assign_log) = 2
    /\ assign_log[1].name = VarX
    /\ assign_log[2].name = VarX
    /\ assign_log[1].value # assign_log[2].value
    /\ yields[1] = assign_log[2].value

(***************************************************************************)
(* Claims about the arithmetic, checked under ArithSpec.                   *)
(***************************************************************************)

\* C1: every Sexagesimal value an operation produces from operands that satisfy
\* the invariant has its fractional part in 0..59 (a fraction that rounds to 60
\* is carried into the integer part).
C1_FractionInRange ==
    (outcome.tag = "Ok" /\ outcome.value.kind = "Sexagesimal")
        => outcome.value.sex.fractional_part \in 0 .. 59

\* C5: on Integer operands every binary operator and unary minus returns a
\* Value or a RuntimeError; none aborts the process.
C5_IntegerOpsReturn ==
    (/\ last_op \in {"Plus", "Minus", "Multiply", "Divide", "Negate"}
     /\ left.kind = "Integer"
     /\ last_op # "Negate" => right.kind = "Integer")
        => outcome.tag \in {"Ok", "Err"}

\* C9: a division whose right operand is Integer 0, Float 0.0 or a Sexagesimal
\* whose real-number equivalent is zero fails with DivisionByZero, whatever the
\* left operand is; no value is produced.
C9_ZeroDivisorFails ==
    (/\ last_op = "Divide"
     /\ \/ right.kind = "Integer" /\ right.i = 0
        \/ right.kind = "Float" /\ right.f.num = 0
        \/ right.kind = "Sexagesimal"
              /\ 60 * right.sex.integer_part + right.sex.fractional_part = 0)
        => outcome = [tag |-> "Err", error |-> [kind |-> "DivisionByZero"]]

\* C9's case: 1;30 / 0 with the divisor written as the Sexagesimal 0;00.
C9_Witness ==
    /\ last_op = "Divide"
    /\ left = SexagesimalV(SexagesimalNum(1, 30))
    /\ right = SexagesimalV(SexagesimalNum(0, 0))
    /\ outcome.tag = "Err"

\* C10: Integer / nonzero Integer yields the Integer quotient when the division
\* is exact and the Float quotient when it is not; Integer + - * Integer yields
\* an Integer.
C10_IntegerArithmetic ==
    (/\ last_op \in {"Plus", "Minus", "Multiply", "Divide"}
     /\ left.kind = "Integer" /\ right.kind = "Integer"
     /\ last_op = "Divide" => right.i # 0)
        => /\ outcome.tag = "Ok"
           /\ last_op # "Divide" => outcome.value.kind = "Integer"
           /\ (last_op = "Divide" /\ \E q \in MinInt - 1 .. MaxInt + 1 : q * right.i = left.i)
                 => /\ outcome.value.kind = "Integer"
                    /\ outcome.value.i * right.i = left.i
           /\ (last_op = "Divide" /\ \A q \in MinInt - 1 .. MaxInt + 1 : q * right.i # left.i)
                 => /\ outcome.value.kind = "Float"
                    /\ outcome.value.f.num * right.i = left.i * outcome.value.f.den

\* C11: each binary operator succeeds on each of the nine ordered pairs of operand
\* kinds (the divisor of / not zero) and the kind of the result follows the
\* promotion table: a Float operand gives a Float; Sexagesimal with Integer, in
\* either order, gives a Sexagesimal; Sexagesimal with Sexagesimal gives a
\* Sexagesimal for + and - and a Float for * and /; none gives InvalidOperator.
C11_PromotionTable ==
    (/\ last_op \in {"Plus", "Minus", "Multiply", "Divide"}
     /\ last_op = "Divide" => ~IsZeroDivisor(right))
        => /\ outcome.tag = "Ok"
           /\ ("Float" \in {left.kind, right.kind}) => outcome.value.kind = "Float"
           /\ ({left.kind, right.kind} = {"Sexagesimal", "Integer"})
                 => outcome.value.kind = "Sexagesimal"
           /\ (left.kind = "Sexagesimal" /\ right.kind = "Sexagesimal")
                 => outcome.value.kind =
                       IF last_op \in {"Plus", "Minus"} THEN "Sexagesimal" ELSE "Float"

(***************************************************************************)
(* Claims about the Sexagesimal arithmetic, checked under SexSpec.         *)
(***************************************************************************)
\* The value of a Sexagesimal in sixtieths.
Sixtieths(sex) == 60 * sex.integer_part + sex.fractional_part

\* C12: for valid Sexagesimal operands a and b, a + b and a - b yield a
\* Sexagesimal whose total in sixtieths is the sum (difference) of the operands'
\* totals and whose fractional part is in 0..59.
C12_SexagesimalSum ==
    (last_op \in {"Plus", "Minus"}) =>
        /\ outcome.tag = "Ok"
        /\ outcome.value.kind = "Sexagesimal"
        /\ outcome.value.sex.fractional_part \in 0 .. 59
        /\ Sixtieths(outcome.value.sex) =
              IF last_op = "Plus" THEN Sixtieths(left.sex) + Sixtieths(right.sex)
              ELSE Sixtieths(left.sex) - Sixtieths(right.sex)

\* C13: unary minus applied twice to a valid Sexagesimal yields a Sexagesimal
\* with the same integer and fractional part.
C13_DoubleNegation ==
    (last_op = "NegateTwice") =>
        /\ outcome.tag = "Ok"
        /\ outcome.value.kind = "Sexagesimal"
        /\ outcome.value.sex.integer_part = left.sex.integer_part
        /\ outcome.value.sex.fractional_part = left.sex.fractional_part

\* C14: from_f64(to_f64(s)) equals the valid Sexagesimal s in integer_part,
\* fractional_part and has_fraction, and has_fraction is true exactly when
\* fractional_part is not zero.
C14_RoundTrip ==
    (last_op = "RoundTrip") =>
        /\ outcome.value.sex = left.sex
        /\ outcome.value.sex.has_fraction = (outcome.value.sex.fractional_part # 0)
(***************************************************************************)
(* Claims about parse_number.                                              *)
(***************************************************************************)
\* The text is an optional sign followed by digits that fit in an i64.
IsSignedInteger(text) == ParseI64(text).tag = "Ok"

\* The text is an optional sign and digits around one '.', a digit on at least
\* one side of it.
IsDecimal(text) ==
    LET body == Unsigned(text)
        point == CHOOSE k \in Places(body, ".") : TRUE
    IN /\ Cardinality(Places(body, ".")) = 1
       /\ Len(body) > 1
       /\ \A k \in 1 .. Len(body) : k # point => is_ascii_digit(body[k])

\* C17: parse_number classifies its string in this order: the empty string fails
\* with EmptyNumber; a string with ';' yields Sexagesimal{a, b} when it is a;b
\* with signed integers a, b and 0 <= b < 60, InvalidFormat otherwise; a string
\* with ',' yields Float(a + b/60) when it is a,b of that shape, InvalidFormat
\* otherwise; more than one '.' fails with MultipleDecimals; one '.' yields a
\* Float; none yields the Integer; malformed or overflowing text of the last two
\* shapes fails with InvalidFormat.
C17_ParseNumberClassifies ==
    (last_op = "ParseNumber") =>
        LET TwoParts(c) ==
                /\ Len(Split(numeral, c)) = 2
                /\ IsSignedInteger(Split(numeral, c)[1])
                /\ IsSignedInteger(Split(numeral, c)[2])
                /\ ParseI64(Split(numeral, c)[2]).value \in 0 .. 59
            a(c) == ParseI64(Split(numeral, c)[1]).value
            b(c) == ParseI64(Split(numeral, c)[2]).value
            points == Cardinality(Places(numeral, "."))
        IN IF numeral = <<>> THEN outcome = Err(EmptyNumber)
           ELSE IF Contains(numeral, ";")
           THEN (IF TwoParts(";")
                 THEN outcome = Ok(SexagesimalV([integer_part |-> a(";"),
                                                 fractional_part |-> b(";"),
                                                 has_fraction |-> b(";") # 0]))
                 ELSE outcome = Err(InvalidFormat))
           ELSE IF Contains(numeral, ",")
           THEN (IF TwoParts(",")
                 THEN outcome = Ok(FloatV(FAdd(FFromInt(a(",")),
                                               FDiv(FFromInt(b(",")), FFromInt(60)))))
                 ELSE outcome = Err(InvalidFormat))
           ELSE IF points > 1 THEN outcome = Err(MultipleDecimals)
           ELSE IF points = 1
           THEN (IF IsDecimal(numeral)
                 THEN outcome.tag = "Ok" /\ outcome.value.kind = "Float"
                 ELSE outcome = Err(InvalidFormat))
           ELSE (IF IsSignedInteger(numeral)
                 THEN outcome = Ok(IntegerV(ParseI64(numeral).value))
                 ELSE outcome = Err(InvalidFormat))

\* C17's case: a string that holds ';' together with ',' or '.' has been
\* classified by its ';'.
C17_Witness ==
    /\ last_op = "ParseNumber"
    /\ Contains(numeral, ";")
    /\ Contains(numeral, ",") \/ Cardinality(Places(numeral, ".")) > 1
    /\ outcome = Err(InvalidFormat)

====
